---- MODULE Spec2Model ----
(***************************************************************************)
(* Model of smartquotes/core.py: the quote director                        *)
(* (convert_to_smart_quotes) and the markdown shield                       *)
(* (smart_quote_markdown).                                                 *)
(*                                                                         *)
(* A text is a sequence of characters; a character is a one-element        *)
(* string, except the four smart quotes, which are written "LDQ", "RDQ",   *)
(* "LSQ", "RSQ" and stand for U+201C, U+201D, U+2018, U+2019, and the      *)
(* backtick, written "BT".  The absent neighbour of the first and last     *)
(* character is the empty string "", as in the source.                     *)
(***************************************************************************)
EXTENDS Integers, Sequences, FiniteSets, TLC

VARIABLES
    text,               \* the argument of the call
    pc,                 \* position inside the call
    processed,          \* smart_quote_markdown's local `processed`
    code_blocks,        \* smart_quote_markdown's local `code_blocks`
    placeholder_index,  \* smart_quote_markdown's local `placeholder_index`
    result              \* the value returned

vars == <<text, pc, processed, code_blocks, placeholder_index, result>>

----------------------------------------------------------------------------
(* Bounds of the model *)

\* longest text given to convert_to_smart_quotes alone (SpecConvert)
MaxLen == 3
\* most pieces a markdown text is put together from (Spec)
MaxPieces == 4

----------------------------------------------------------------------------
(* QuoteChars / QUOTES *)

LEFT_DOUBLE == "LDQ"
RIGHT_DOUBLE == "RDQ"
LEFT_SINGLE == "LSQ"
RIGHT_SINGLE == "RSQ"
STRAIGHT_DOUBLE == "\""
STRAIGHT_SINGLE == "'"

OPENING_CONTEXT ==
    {" ", "\t", "\n", "\r", "(", "[", "{", "<", LEFT_DOUBLE, LEFT_SINGLE}

\* the characters [a-zA-Z] of _LETTER_REGEX
LETTER_REGEX ==
    {"a", "b", "c", "d", "e", "f", "g", "h", "i", "j", "k", "l", "m",
     "n", "o", "p", "q", "r", "s", "t", "u", "v", "w", "x", "y", "z",
     "A", "B", "C", "D", "E", "F", "G", "H", "I", "J", "K", "L", "M",
     "N", "O", "P", "Q", "R", "S", "T", "U", "V", "W", "X", "Y", "Z"}

----------------------------------------------------------------------------
(* The quote director *)

is_letter(char) == char \in LETTER_REGEX

\* is_opening_context without the start-of-text test
is_opening_context_no_start(prev_char, is_start, opposite_quote) ==
    prev_char \in OPENING_CONTEXT \/ prev_char = opposite_quote

is_opening_context(prev_char, is_start, opposite_quote) ==
    is_start \/ prev_char \in OPENING_CONTEXT \/ prev_char = opposite_quote

\* convert_char whose closing single quote falls through to `return char`
convert_char_keeps_closing_single(char, prev_char, next_char, is_start) ==
    IF char = STRAIGHT_DOUBLE
    THEN IF is_opening_context(prev_char, is_start, LEFT_SINGLE)
         THEN LEFT_DOUBLE
         ELSE RIGHT_DOUBLE
    ELSE IF char = STRAIGHT_SINGLE /\ is_letter(prev_char) /\ is_letter(next_char)
    THEN RIGHT_SINGLE
    ELSE IF char = STRAIGHT_SINGLE
            /\ is_opening_context(prev_char, is_start, LEFT_DOUBLE)
    THEN LEFT_SINGLE
    ELSE char

convert_char(char, prev_char, next_char, is_start) ==
    IF char = STRAIGHT_DOUBLE
    THEN IF is_opening_context(prev_char, is_start, LEFT_SINGLE)
         THEN LEFT_DOUBLE
         ELSE RIGHT_DOUBLE
    ELSE IF char = STRAIGHT_SINGLE
    THEN IF is_letter(prev_char) /\ is_letter(next_char)
         THEN RIGHT_SINGLE
         ELSE IF is_opening_context(prev_char, is_start, LEFT_DOUBLE)
         THEN LEFT_SINGLE
         ELSE RIGHT_SINGLE
    ELSE char

\* text[i - 1] if i > 0 else ""   (positions are 1-based here)
prev_char_at(t, i) == IF i > 1 THEN t[i - 1] ELSE ""

\* text[i + 1] if i < len(text) - 1 else ""
next_char_at(t, i) == IF i < Len(t) THEN t[i + 1] ELSE ""

convert_to_smart_quotes(t) ==
    [i \in 1..Len(t) |->
        convert_char(t[i], prev_char_at(t, i), next_char_at(t, i), i = 1)]

\* has_straight_quotes that also counts a backtick as work to do
has_straight_quotes_or_backtick(t) ==
    \E i \in 1..Len(t) :
        t[i] = STRAIGHT_DOUBLE \/ t[i] = STRAIGHT_SINGLE \/ t[i] = "BT"

has_straight_quotes(t) ==
    \E i \in 1..Len(t) : t[i] = STRAIGHT_DOUBLE \/ t[i] = STRAIGHT_SINGLE

----------------------------------------------------------------------------
(* Strings *)

\* p occurs in s at position i
OccursAt(s, p, i) ==
    /\ i >= 1
    /\ i + Len(p) - 1 <= Len(s)
    /\ \A j \in 1..Len(p) : s[i + j - 1] = p[j]

\* the first position >= i at which p occurs in s; 0 when there is none
Find(s, p, i) ==
    LET found == {j \in i..(Len(s) - Len(p) + 1) : OccursAt(s, p, j)}
    IN  IF found = {} THEN 0
        ELSE CHOOSE j \in found : \A j2 \in found : j <= j2

\* str.replace(old, new) from position i on: every non-overlapping
\* occurrence, leftmost first
RECURSIVE ReplaceFrom(_, _, _, _)
ReplaceFrom(s, old, new, i) ==
    LET at == Find(s, old, i)
    IN  IF at = 0 THEN SubSeq(s, i, Len(s))
        ELSE SubSeq(s, i, at - 1) \o new
                 \o ReplaceFrom(s, old, new, at + Len(old))

str_replace(s, old, new) == ReplaceFrom(s, old, new, 1)

\* the decimal digits of a natural number, as f"{n}" writes them
DecimalDigits == <<"0", "1", "2", "3", "4", "5", "6", "7", "8", "9">>

RECURSIVE format_int(_)
format_int(n) ==
    IF n < 10 THEN <<DecimalDigits[n + 1]>>
    ELSE format_int(n \div 10) \o <<DecimalDigits[(n % 10) + 1]>>

----------------------------------------------------------------------------
(* Placeholders *)

PLACEHOLDER_PREFIX ==
    <<"<", "<", "S", "M", "A", "R", "T", "_", "Q", "U", "O", "T", "E", "S",
      "_", "C", "O", "D", "E", "_", "B", "L", "O", "C", "K", "_">>

\* a suffix that repeats the prefix's delimiter
PLACEHOLDER_SUFFIX_like_prefix == <<"<", "<">>

PLACEHOLDER_SUFFIX == <<">", ">">>

\* f"{_PLACEHOLDER_PREFIX}{placeholder_index}{_PLACEHOLDER_SUFFIX}"
placeholder_for(index) ==
    PLACEHOLDER_PREFIX \o format_int(index) \o PLACEHOLDER_SUFFIX

\* _CodeBlock(placeholder=..., content=...)
CodeBlock(ph, content) == [placeholder |-> ph, content |-> content]

----------------------------------------------------------------------------
(* The three patterns.  XMatchEnd(s, i) is the position just after the     *)
(* match the regex engine finds when it tries the pattern at position i,   *)
(* and 0 when the pattern does not match there.                            *)

\* U+0060, the backtick (the lexer of TLA+ takes no backtick in a string)
BACKTICK == "BT"

Backticks(k) == [j \in 1..k |-> BACKTICK]

\* r"BT{3}[\s\S]*?BT{3}" (BT the backtick): the fence, then the shortest
\* content the closing fence follows
FencedMatchEnd(s, i) ==
    IF ~OccursAt(s, Backticks(3), i) THEN 0
    ELSE LET e == Find(s, Backticks(3), i + 3)
         IN  IF e = 0 THEN 0 ELSE e + 3

\* the number of consecutive backticks from position i on
RECURSIVE BacktickRun(_, _)
BacktickRun(s, i) ==
    IF i <= Len(s) /\ s[i] = BACKTICK THEN 1 + BacktickRun(s, i + 1) ELSE 0

\* r"(BT+)[\s\S]*?\1" tried at i with group 1 holding k backticks, then
\* k - 1, ..., 1 (+ is greedy and gives back one backtick at a time);
\* for each k the shortest content that the same k backticks follow
\* the pattern with a plain backtick where the backreference \1 stands:
\* the whole run opens, the next backtick closes
InlineTry_single_closer(s, i, k) ==
    IF k = 0 THEN 0
    ELSE IF Find(s, Backticks(1), i + k) # 0
    THEN Find(s, Backticks(1), i + k) + 1
    ELSE IF k >= 2 THEN i + k
    ELSE 0

RECURSIVE InlineTry(_, _, _)
InlineTry(s, i, k) ==
    IF k = 0 THEN 0
    ELSE LET e == Find(s, Backticks(k), i + k)
         IN  IF e # 0 THEN e + k ELSE InlineTry(s, i, k - 1)

InlineMatchEnd(s, i) == InlineTry(s, i, BacktickRun(s, i))

\* (?:[ ]{4}|\t): the length of the indentation at position j, 0 when the
\* line does not start with one
IndentLen(s, j) ==
    IF OccursAt(s, <<" ", " ", " ", " ">>, j) THEN 4
    ELSE IF OccursAt(s, <<"\t">>, j) THEN 1
    ELSE 0

\* .* : the first position >= j holding a newline, Len(s) + 1 when none
LineEnd(s, j) ==
    IF Find(s, <<"\n">>, j) = 0 THEN Len(s) + 1 ELSE Find(s, <<"\n">>, j)

\* (?:\n(?:[ ]{4}|\t).*)* from position p (a newline or the end) on
RECURSIVE MoreIndentedLines(_, _)
MoreIndentedLines(s, p) ==
    IF p <= Len(s) /\ IndentLen(s, p + 1) # 0
    THEN MoreIndentedLines(s, LineEnd(s, p + 1 + IndentLen(s, p + 1)))
    ELSE p

\* the group ((?:[ ]{4}|\t).*(?:\n(?:[ ]{4}|\t).*)*) tried at position j
IndentedBody(s, j) ==
    IF IndentLen(s, j) = 0 THEN 0
    ELSE MoreIndentedLines(s, LineEnd(s, j + IndentLen(s, j)))

\* r"(?:^|\n)(...)" : ^ matches at the start of the text only (no
\* re.MULTILINE); the alternative \n is tried when ^ fails
IndentedMatchEnd(s, i) ==
    IF i = 1 /\ IndentedBody(s, 1) # 0 THEN IndentedBody(s, 1)
    ELSE IF i <= Len(s) /\ s[i] = "\n" THEN IndentedBody(s, i + 1)
    ELSE 0

MatchEnd(pattern, s, i) ==
    CASE pattern = "fenced" -> FencedMatchEnd(s, i)
      [] pattern = "inline" -> InlineMatchEnd(s, i)
      [] pattern = "indented" -> IndentedMatchEnd(s, i)

----------------------------------------------------------------------------
(* re.sub(pattern, create_placeholder, processed)                          *)

\* the first position >= i at which the pattern matches; 0 when none
SearchFrom(pattern, s, i) ==
    LET starts == {j \in i..Len(s) : MatchEnd(pattern, s, j) # 0}
    IN  IF starts = {} THEN 0
        ELSE CHOOSE j \in starts : \A j2 \in starts : j <= j2

\* the scan of re.sub from position i on: the leftmost match is replaced
\* by create_placeholder's return value, the characters before it are
\* copied, and the scan goes on after the match.  index is
\* placeholder_index.  The value is the rewritten rest of the text and the
\* code blocks appended meanwhile.
RECURSIVE SubFrom(_, _, _, _)
SubFrom(pattern, s, i, index) ==
    LET at == SearchFrom(pattern, s, i)
    IN  IF at = 0 THEN [out |-> SubSeq(s, i, Len(s)), blocks |-> <<>>]
        ELSE LET e == MatchEnd(pattern, s, at)
                 rest == SubFrom(pattern, s, e, index + 1)
             IN  [out |-> SubSeq(s, i, at - 1) \o placeholder_for(index)
                              \o rest.out,
                  blocks |-> <<CodeBlock(placeholder_for(index),
                                         SubSeq(s, at, e - 1))>>
                             \o rest.blocks]

re_sub(pattern, s, index) == SubFrom(pattern, s, 1, index)

\* for block in code_blocks: processed = processed.replace(...)
RECURSIVE restore(_, _, _)
restore(s, blocks, k) ==
    IF k > Len(blocks) THEN s
    ELSE restore(str_replace(s, blocks[k].placeholder, blocks[k].content),
                 blocks, k + 1)

\* steps 1-3 of smart_quote_markdown on text t: the masked text and the
\* code blocks, in the order recorded
mask(t) ==
    LET fenced == re_sub("fenced", t, 0)
        inline == re_sub("inline", fenced.out, Len(fenced.blocks))
        indented == re_sub("indented", inline.out,
                           Len(fenced.blocks) + Len(inline.blocks))
    IN  [out |-> indented.out,
         blocks |-> fenced.blocks \o inline.blocks \o indented.blocks]

\* steps 1-5 of smart_quote_markdown: the body below the early exit
full_pipeline(t) ==
    restore(convert_to_smart_quotes(mask(t).out), mask(t).blocks, 1)

\* the matches re.sub finds in s, each <<first position, position after>>
RECURSIVE MatchSpansFrom(_, _, _)
MatchSpansFrom(pattern, s, i) ==
    LET at == SearchFrom(pattern, s, i)
    IN  IF at = 0 THEN {}
        ELSE {<<at, MatchEnd(pattern, s, at)>>}
                 \cup MatchSpansFrom(pattern, s, MatchEnd(pattern, s, at))

MatchSpans(pattern, s) == MatchSpansFrom(pattern, s, 1)

----------------------------------------------------------------------------
(* Inputs *)

\* the characters of the texts given to convert_to_smart_quotes alone
PlainChars ==
    OPENING_CONTEXT \cup
    {STRAIGHT_DOUBLE, STRAIGHT_SINGLE, RIGHT_DOUBLE, RIGHT_SINGLE,
     "a", "Z", "1", ">", BACKTICK}

PlainTexts == UNION {[1..n -> PlainChars] : n \in 0..MaxLen}

\* the pieces markdown texts are put together from
Pieces ==
    {<<STRAIGHT_DOUBLE>>, <<STRAIGHT_SINGLE>>, <<BACKTICK>>, Backticks(3),
     <<"\n">>, <<"\t">>, <<" ", " ", " ", " ">>, <<"a">>,
     placeholder_for(0)}

RECURSIVE PieceTexts(_)
PieceTexts(n) ==
    IF n = 0 THEN {<<>>}
    ELSE LET shorter == PieceTexts(n - 1)
         IN  shorter \cup {t \o p : t \in shorter, p \in Pieces}

MarkdownTexts == PieceTexts(MaxPieces)

----------------------------------------------------------------------------
(* The calls *)

TypeOK ==
    /\ pc \in {"ready", "converted", "fenced", "inline", "indented",
               "prose", "returned"}
    /\ placeholder_index \in Nat

InitWith(texts) ==
    /\ text \in texts
    /\ pc = "ready"
    /\ processed = <<>>
    /\ code_blocks = <<>>
    /\ placeholder_index = 0
    /\ result = <<>>

\* convert_to_smart_quotes(text)
ConvertCall ==
    /\ pc = "ready"
    /\ result' = convert_to_smart_quotes(text)
    /\ pc' = "converted"
    /\ UNCHANGED <<text, processed, code_blocks, placeholder_index>>

\* smart_quote_markdown(text): if not _has_straight_quotes(text): return text
EarlyExit ==
    /\ pc = "ready"
    /\ ~has_straight_quotes(text)
    /\ result' = text
    /\ pc' = "returned"
    /\ UNCHANGED <<text, processed, code_blocks, placeholder_index>>

\* one masking pass: processed = re.sub(pattern, create_placeholder, processed)
MaskPass(pattern, s) ==
    LET r == re_sub(pattern, s, placeholder_index)
    IN  /\ processed' = r.out
        /\ code_blocks' = code_blocks \o r.blocks
        /\ placeholder_index' = placeholder_index + Len(r.blocks)

\* processed = text; 1. extract fenced code blocks
MaskFenced ==
    /\ pc = "ready"
    /\ has_straight_quotes(text)
    /\ MaskPass("fenced", text)
    /\ pc' = "fenced"
    /\ UNCHANGED <<text, result>>

\* 2. extract inline code
MaskInline ==
    /\ pc = "fenced"
    /\ MaskPass("inline", processed)
    /\ pc' = "inline"
    /\ UNCHANGED <<text, result>>

\* 3. extract indented code blocks
MaskIndented ==
    /\ pc = "inline"
    /\ MaskPass("indented", processed)
    /\ pc' = "indented"
    /\ UNCHANGED <<text, result>>

\* 4. apply smart quote conversion to remaining prose
ConvertProse ==
    /\ pc = "indented"
    /\ processed' = convert_to_smart_quotes(processed)
    /\ pc' = "prose"
    /\ UNCHANGED <<text, code_blocks, placeholder_index, result>>

\* 5. restore code blocks from placeholders; return processed
RestoreAndReturn ==
    /\ pc = "prose"
    /\ processed' = restore(processed, code_blocks, 1)
    /\ result' = processed'
    /\ pc' = "returned"
    /\ UNCHANGED <<text, code_blocks, placeholder_index>>

Init == InitWith(MarkdownTexts)

Next ==
    \/ ConvertCall
    \/ EarlyExit
    \/ MaskFenced
    \/ MaskInline
    \/ MaskIndented
    \/ ConvertProse
    \/ RestoreAndReturn

Spec == Init /\ [][Next]_vars

\* convert_to_smart_quotes alone, on every short text over PlainChars
InitConvert == InitWith(PlainTexts)

NextConvert == ConvertCall

SpecConvert == InitConvert /\ [][NextConvert]_vars

----------------------------------------------------------------------------
(* What the properties below speak of *)

IsStraightQuote(c) == c = "\"" \/ c = "'"

\* t holds neither straight quote
NoStraightQuote(t) == \A i \in 1..Len(t) : ~IsStraightQuote(t[i])

\* t holds none of the placeholders a call on t could mint
PlaceholderFree(t) ==
    \A n \in 0..Len(t) : Find(t, placeholder_for(n), 1) = 0

\* s holds a placeholder minted for one of the blocks
HoldsPlaceholder(s, blocks) ==
    \E k \in 1..Len(blocks) : Find(s, blocks[k].placeholder, 1) # 0

\* the text a piece of masked text stands for: every placeholder replaced
\* by what it was minted for, the latest minted first
RECURSIVE Unmask(_, _, _)
Unmask(s, blocks, k) ==
    IF k = 0 THEN s
    ELSE Unmask(str_replace(s, blocks[k].placeholder, blocks[k].content),
                blocks, k - 1)

\* the position in the input of what starts at position j of the masked
\* text m.out (j is the position of a prose character, or the first
\* position of a placeholder)
InputPos(m, j) ==
    Len(Unmask(SubSeq(m.out, 1, j - 1), m.blocks, Len(m.blocks))) + 1

\* the position in the result of the prose character at position j of the
\* masked text
ResultPos(m, j) ==
    Len(restore(SubSeq(convert_to_smart_quotes(m.out), 1, j - 1),
                m.blocks, 1)) + 1

\* the positions of the input inside a region the masking passes replaced
\* by a placeholder
ProtectedPositions(t) ==
    LET m == mask(t)
        n == Len(m.blocks)
        tokens == {jk \in (1..Len(m.out)) \X (1..n) :
                      OccursAt(m.out, m.blocks[jk[2]].placeholder, jk[1])}
    IN  UNION {InputPos(m, jk[1]) ..
                 (InputPos(m, jk[1])
                    + Len(Unmask(m.blocks[jk[2]].placeholder, m.blocks, n)) - 1) :
               jk \in tokens}

\* the masked text and the blocks stand for the input
MaskFaithful ==
    (pc = "indented" /\ PlaceholderFree(text)) =>
        /\ processed = mask(text).out
        /\ code_blocks = mask(text).blocks
        /\ Unmask(processed, code_blocks, Len(code_blocks)) = text

\* the whole of t is one fenced block, one inline code span, or one
\* indented block
OnlyProtectedContent(t) ==
    /\ Len(t) > 0
    /\ \/ FencedMatchEnd(t, 1) = Len(t) + 1
       \/ InlineMatchEnd(t, 1) = Len(t) + 1
       \/ IndentedBody(t, 1) = Len(t) + 1

----------------------------------------------------------------------------
(* C1 *)

\* the character the per-character decision procedure emits at position i
DirectedChar(t, i) ==
    LET prev == IF i = 1 THEN "" ELSE t[i - 1]
        next == IF i = Len(t) THEN "" ELSE t[i + 1]
        opening ==
            \/ i = 1
            \/ prev \in {" ", "\t", "\n", "\r", "(", "[", "{", "<", "LDQ", "LSQ"}
    IN  IF t[i] = "\""
        THEN IF opening THEN "LDQ" ELSE "RDQ"
        ELSE IF t[i] = "'"
        THEN IF prev \in LETTER_REGEX /\ next \in LETTER_REGEX THEN "RSQ"
             ELSE IF opening THEN "LSQ"
             ELSE "RSQ"
        ELSE t[i]

----------------------------------------------------------------------------
(* C2 *)

\* C2: for a text without placeholder tokens, the output of
\* smart_quote_markdown is as long as the input and every character inside
\* a protected region is returned unchanged at its position, also when
\* protected regions contain one another.
C2_ProtectedRegionsUnchanged ==
    (pc = "returned" /\ PlaceholderFree(text)) =>
        /\ Len(result) = Len(text)
        /\ \A i \in ProtectedPositions(text) :
               i <= Len(result) /\ result[i] = text[i]

----------------------------------------------------------------------------
(* C3 *)

\* C3: a text that is only protected content (one fenced block, one inline
\* code span, or one indented block) is returned unchanged by
\* smart_quote_markdown, whatever it contains.
C3_OnlyProtectedContentUnchanged ==
    (pc = "returned" /\ OnlyProtectedContent(text)) => result = text

----------------------------------------------------------------------------
(* C4 *)

\* C4: the output of convert_to_smart_quotes holds no straight double
\* quote and no straight single quote, whatever the input.
C4_NoStraightQuoteLeft ==
    pc = "converted" =>
        \A i \in 1..Len(result) :
            result[i] # STRAIGHT_DOUBLE /\ result[i] # STRAIGHT_SINGLE

\* a text with a smart quote already in it and a closing straight single
\* quote has been converted
C4_Witness ==
    /\ pc = "converted"
    /\ text = <<"LDQ", "a", "'">>
    /\ result = <<"LDQ", "a", "RSQ">>

----------------------------------------------------------------------------
(* C5 *)

\* C5: on a text with neither straight quote both convert_to_smart_quotes
\* and smart_quote_markdown return the text itself, whatever backticks,
\* fences, indentation or placeholder-like substrings it holds.
C5_IdentityWithoutQuotes ==
    (pc \in {"converted", "returned"} /\ NoStraightQuote(text)) =>
        result = text

\* smart_quote_markdown has returned on an indented line that holds an
\* inline code span and a placeholder-like substring, and no quote
C5_Witness ==
    /\ pc = "returned"
    /\ text = <<"\t", "BT", "BT">> \o placeholder_for(0)
    /\ result = text

----------------------------------------------------------------------------
(* C6 *)

\* C6: for a text without placeholder tokens, every straight quote outside
\* the protected regions comes out of smart_quote_markdown as the
\* character convert_to_smart_quotes gives that quote on the whole text:
\* a placeholder next to a prose quote never changes its direction.
C6_ProseQuotesAsDirect ==
    (pc = "returned" /\ ~NoStraightQuote(text) /\ PlaceholderFree(text)) =>
        LET m == mask(text)
        IN  \A j \in 1..Len(m.out) :
                IsStraightQuote(m.out[j]) =>
                    /\ ResultPos(m, j) <= Len(result)
                    /\ text[InputPos(m, j)] = m.out[j]
                    /\ result[ResultPos(m, j)] =
                           convert_to_smart_quotes(text)[InputPos(m, j)]

\* a prose quote right before and one right after an inline code span
C6_Witness ==
    /\ pc = "returned"
    /\ text = <<"'", "BT", "BT", "\"">>
    /\ result = <<"LSQ", "BT", "BT", "RDQ">>

----------------------------------------------------------------------------
(* C7 *)

\* C7: in the output of convert_to_smart_quotes a straight quote that
\* follows an emitted left smart quote of the opposite type is a left
\* smart quote of its own type.
C7_OpensAfterOppositeOpening ==
    pc = "converted" =>
        \A i \in 2..Len(text) :
            /\ (text[i] = STRAIGHT_DOUBLE /\ result[i - 1] = LEFT_SINGLE)
                   => result[i] = LEFT_DOUBLE
            /\ (text[i] = STRAIGHT_SINGLE /\ result[i - 1] = LEFT_DOUBLE)
                   => result[i] = LEFT_SINGLE

----------------------------------------------------------------------------
(* C8 *)

\* C8: for a text without placeholder tokens, no content recorded by a
\* masking pass holds a placeholder of an earlier pass, and the returned
\* text holds no placeholder.
C8_PlaceholdersInert ==
    PlaceholderFree(text) =>
        /\ \A k \in 1..Len(code_blocks) :
               ~HoldsPlaceholder(code_blocks[k].content, code_blocks)
        /\ (pc = "returned" => ~HoldsPlaceholder(result, code_blocks))

----------------------------------------------------------------------------
(* C9 *)

\* what the inline-code pass was given: the outcome of the fenced pass
InlinePassInput == re_sub("fenced", text, 0)

\* the span was recorded as the content of a code block
Recorded(s, span) ==
    \E n \in 1..Len(code_blocks) :
        code_blocks[n].content = SubSeq(s, span[1], span[2] - 1)

\* the span <<i, e>> of s is a maximal run of k backticks, content, and a
\* maximal run of the same k backticks
MaximalRunsMatch(s, span) ==
    LET i == span[1]
        e == span[2]
        k == BacktickRun(s, i)
    IN  /\ k >= 1
        /\ (i = 1 \/ s[i - 1] # BACKTICK)
        /\ e - i >= 2 * k
        /\ OccursAt(s, Backticks(k), e - k)
        /\ s[e - k - 1] # BACKTICK
        /\ (e > Len(s) \/ s[e] # BACKTICK)

\* the span <<i, e>> of s is k backticks, the shortest content that k
\* backticks follow, and those k backticks, and no more than k of the
\* backticks at i can open a span
CapturedCountMatch(s, span, k) ==
    LET i == span[1]
        e == span[2]
    IN  /\ k \in 1..BacktickRun(s, i)
        /\ e - i >= 2 * k
        /\ OccursAt(s, Backticks(k), e - k)
        /\ \A j \in (i + k)..(e - k - 1) : ~OccursAt(s, Backticks(k), j)
        /\ \A k2 \in (k + 1)..BacktickRun(s, i) :
               \A j \in (i + k2)..Len(s) : ~OccursAt(s, Backticks(k2), j)

\* C9 (as claimed): every span the inline-code pass extracts is a run of
\* backticks, content, and a run of as many backticks, the runs being
\* maximal runs of the scanned text.
C9_InlineSpansMatchRuns ==
    pc = "inline" =>
        \A span \in MatchSpans("inline", InlinePassInput.out) :
            /\ Recorded(InlinePassInput.out, span)
            /\ MaximalRunsMatch(InlinePassInput.out, span)

\* C9 (amended): every span the inline-code pass extracts is k backticks,
\* the shortest content that k backticks follow, and those k backticks,
\* where k is the largest number of the backticks at the start of the span
\* for which k backticks occur again later; neither delimiter need be a
\* maximal run.
C9_InlineSpansMatchCapturedCount ==
    pc = "inline" =>
        \A span \in MatchSpans("inline", InlinePassInput.out) :
            /\ Recorded(InlinePassInput.out, span)
            /\ \E k \in 1..Len(InlinePassInput.out) :
                   CapturedCountMatch(InlinePassInput.out, span, k)

\* a span opened by one backtick was closed by the first backtick of a run
\* of three, and the other two backticks of the run made an empty span
C9_Witness ==
    /\ pc = "inline"
    /\ text = <<"BT", "'", "BT", "BT", "BT">>
    /\ code_blocks = <<CodeBlock(placeholder_for(0), <<"BT", "'", "BT">>),
                       CodeBlock(placeholder_for(1), <<"BT", "BT">>)>>

----------------------------------------------------------------------------
(* C10 *)

\* C10: on a text with neither straight quote the body of
\* smart_quote_markdown below the early exit gives what the early exit
\* returns, the text itself.
C10_FastPathAsFullPipeline ==
    (pc = "returned" /\ NoStraightQuote(text)) =>
        /\ full_pipeline(text) = result
        /\ full_pipeline(text) = text

\* the actions of a call compute full_pipeline
PipelineAsActions ==
    (pc = "returned" /\ ~NoStraightQuote(text)) =>
        result = full_pipeline(text)

====
